---- MODULE Spec2Model ----
(***************************************************************************)
(* Optimistic mutation coordination of the publishing control surface:     *)
(* the workflow state machine (types/record.ts), the pending operation     *)
(* tracker (pendingOpsStore.ts), the single and batch mutation hooks       *)
(* (hooks/useRecords.ts) and the backing store (lib/api/mockApi.ts).       *)
(*                                                                         *)
(* One step of the model is one task of the JavaScript event loop: a call  *)
(* of mutate runs onMutate to its end (the only await in it, cancelQueries,*)
(* resolves within the same task), and the timer that ends a backing call  *)
(* runs updateRecord's body and the settlement callbacks in one task.      *)
(***************************************************************************)
EXTENDS Integers, Sequences, FiniteSets, TLC

\* Number of backing calls (updateRecord) requested in one behaviour: a single
\* mutation asks for one, a batch mutation for one per selected record.
MaxCalls == 2

\* Number of single mutations of one record in one behaviour of SpecSingle
MaxSingleCalls == 3

\* Number of operations created in one behaviour of TrackerSpec
MaxOps == 3

\* Number of single mutations in one behaviour of SpecPair
MaxPairCalls == 2

Null == "null"
Undefined == "undefined"

Statuses == {"Queued", "InReview", "Approved", "Published", "Blocked"}
Actions == {"review", "approve", "publish", "block"}

\* Identities known to the backing store; CachedIds are those the query
\* cache holds (a filtered list leaves the others out).
RecordIds == {"e1", "e2", "e3"}
CachedIds == {"e1", "e2"}

\* Selections a caller passes to the batch mutation.
Selections == {<<"e1", "e2">>, <<"e2", "e3">>}

\* Record ids a caller passes to the single mutation ("e3" is not in the cache).
SingleIds == {"e1", "e3"}

\* Statuses the cached records start in.
InitialStatuses == [e1 : Statuses, e2 : {"Queued", "Approved"}, e3 : {"Queued"}]

\* Reasons a caller passes; Undefined is the omitted optional argument.
Reasons == {"r1"}
InitialBlockReason == "Policy violation or content quality issue"

VARIABLES
    cache,          \* query cache: record id -> ContentRecord
    recordsStore,   \* mockApi's in-memory store: record id -> ContentRecord
    operations,     \* pendingOpsStore.operations: Map record id -> PendingOperation[]
    mutations,      \* single mutations by mutation id: variables, context, status
    batches,        \* batch mutations by mutation id: variables, context, progress
    issued,         \* number of mutate calls so far (the mutation id counter)
    calls,          \* number of backing calls requested so far
    nextOp,         \* number of operation ids handed out by nanoid
    clock,          \* Date.now(), counted in ticks
    last            \* the handler that ran last, with its arguments and outcome

vars == <<cache, recordsStore, operations, mutations, batches, issued, calls, nextOp, clock, last>>

----------------------------------------------------------------------------
(* Workflow state machine *)

TRANSITIONS ==
    << [from |-> {"Queued"}, to |-> "InReview", action |-> "review"],
       [from |-> {"InReview"}, to |-> "Approved", action |-> "approve"],
       [from |-> {"Approved"}, to |-> "Published", action |-> "publish"],
       [from |-> {"Queued", "InReview", "Approved", "Published"}, to |-> "Blocked",
        action |-> "block"] >>

Min(S) == CHOOSE x \in S : \A y \in S : x <= y

\* getNextStatus without the from check for block
getNextStatusBlockAnywhere(currentStatus, action) ==
    LET matching == {i \in 1..Len(TRANSITIONS) :
                        /\ currentStatus \in TRANSITIONS[i].from \/ action = "block"
                        /\ TRANSITIONS[i].action = action}
    IN  IF matching = {} THEN Null ELSE TRANSITIONS[Min(matching)].to

\* getNextStatus with a review that takes a Blocked record back to Queued
getNextStatusUnblocking(currentStatus, action) ==
    LET matching == {i \in 1..Len(TRANSITIONS) :
                        /\ currentStatus \in TRANSITIONS[i].from
                        /\ TRANSITIONS[i].action = action}
    IN  IF currentStatus = "Blocked" /\ action = "review" THEN "Queued"
        ELSE IF matching = {} THEN Null ELSE TRANSITIONS[Min(matching)].to

\* TRANSITIONS.find(...)?.to ?? null : the first matching entry
getNextStatus(currentStatus, action) ==
    LET matching == {i \in 1..Len(TRANSITIONS) :
                        /\ currentStatus \in TRANSITIONS[i].from
                        /\ TRANSITIONS[i].action = action}
    IN  IF matching = {} THEN Null ELSE TRANSITIONS[Min(matching)].to

isValidAction(currentStatus, action) == getNextStatus(currentStatus, action) # Null

----------------------------------------------------------------------------
(* Pending operation tracker *)

getOperationsOf(ops, recordId) == IF recordId \in DOMAIN ops THEN ops[recordId] ELSE <<>>

\* addOperation recording the status the action leads to instead of the
\* status it starts from
addOperationAnchoringTarget(ops, operationId, recordId, action, previousStatus, timestamp) ==
    LET existing == getOperationsOf(ops, recordId)
        operation == [id |-> operationId, recordId |-> recordId, action |-> action,
                      previousStatus |-> IF getNextStatus(previousStatus, action) = Null
                                         THEN previousStatus
                                         ELSE getNextStatus(previousStatus, action),
                      timestamp |-> timestamp]
    IN  [k \in DOMAIN ops \cup {recordId} |->
            IF k = recordId THEN Append(existing, operation) ELSE ops[k]]

\* addOperation storing the new operation alone instead of appending it
addOperationReplacing(ops, operationId, recordId, action, previousStatus, timestamp) ==
    [k \in DOMAIN ops \cup {recordId} |->
        IF k = recordId
        THEN << [id |-> operationId, recordId |-> recordId, action |-> action,
                 previousStatus |-> previousStatus, timestamp |-> timestamp] >>
        ELSE ops[k]]

addOperation(ops, operationId, recordId, action, previousStatus, timestamp) ==
    LET existing == getOperationsOf(ops, recordId)
        operation == [id |-> operationId, recordId |-> recordId, action |-> action,
                      previousStatus |-> previousStatus, timestamp |-> timestamp]
    IN  [k \in DOMAIN ops \cup {recordId} |->
            IF k = recordId THEN Append(existing, operation) ELSE ops[k]]

\* removeOperation dropping the record's whole list, as clearOperations does
removeOperationClearing(ops, operationId, recordId) ==
    [k \in DOMAIN ops \ {recordId} |-> ops[k]]

\* removeOperation emptying the whole tracker
removeOperationResetting(ops, operationId, recordId) == << >>

\* removeOperation leaving the record's key with an empty list
removeOperationKeepingKey(ops, operationId, recordId) ==
    [k \in DOMAIN ops |->
        IF k = recordId
        THEN SelectSeq(ops[k], LAMBDA op : op.id # operationId)
        ELSE ops[k]]

\* removeOperation filtering the lists of all records, not only recordId's
removeOperationEverywhere(ops, operationId, recordId) ==
    LET kept == [k \in DOMAIN ops |-> SelectSeq(ops[k], LAMBDA op : op.id # operationId)]
    IN  [k \in {j \in DOMAIN ops : Len(kept[j]) > 0} |-> kept[k]]

\* removeOperation dropping the record's oldest operation, whatever its id
removeOperationOldest(ops, operationId, recordId) ==
    LET existing == getOperationsOf(ops, recordId)
    IN  IF Len(existing) <= 1
        THEN [k \in DOMAIN ops \ {recordId} |-> ops[k]]
        ELSE [k \in DOMAIN ops |-> IF k = recordId THEN Tail(existing) ELSE ops[k]]

removeOperation(ops, operationId, recordId) ==
    LET existing == getOperationsOf(ops, recordId)
        filtered == SelectSeq(existing, LAMBDA op : op.id # operationId)
    IN  IF Len(filtered) = 0
        THEN [k \in DOMAIN ops \ {recordId} |-> ops[k]]
        ELSE [k \in DOMAIN ops \cup {recordId} |->
                IF k = recordId THEN filtered ELSE ops[k]]

hasPendingOps(recordId) ==
    recordId \in DOMAIN operations /\ Len(operations[recordId]) > 0

\* getLatestAction reading the first element of the list
getLatestActionOldest(recordId) ==
    IF recordId \notin DOMAIN operations \/ Len(operations[recordId]) = 0
    THEN Null
    ELSE operations[recordId][1].action

getLatestAction(recordId) ==
    IF recordId \notin DOMAIN operations \/ Len(operations[recordId]) = 0
    THEN Null
    ELSE operations[recordId][Len(operations[recordId])].action

getOperations(recordId) == getOperationsOf(operations, recordId)

clearOperations(ops, recordId) == [k \in DOMAIN ops \ {recordId} |-> ops[k]]

getPendingCount(recordId) ==
    IF recordId \in DOMAIN operations THEN Len(operations[recordId]) ELSE 0

----------------------------------------------------------------------------
(* Backing store *)

\* updateRecord that draws its failure after writing: a failing call of a
\* valid action has changed the store
updateRecordFailingLate(store, recordId, action, blockReason, fail, now) ==
    IF recordId \notin DOMAIN store
    THEN [ok |-> FALSE, code |-> "NOT_FOUND", store |-> store]
    ELSE LET record == store[recordId]
             nextStatus == getNextStatus(record.status, action)
             written == [store EXCEPT ![recordId] =
                            [status |-> nextStatus,
                             updatedAt |-> now,
                             blockReason |-> IF action = "block" THEN blockReason
                                             ELSE record.blockReason]]
         IN  IF nextStatus = Null
             THEN [ok |-> FALSE, code |-> "INVALID_TRANSITION", store |-> store]
             ELSE IF fail
             THEN [ok |-> FALSE, code |-> "NETWORK_ERROR", store |-> written]
             ELSE [ok |-> TRUE, code |-> Null, store |-> written]

\* updateRecord that returns the record as it is when the action is not valid
\* from its status, instead of throwing INVALID_TRANSITION
updateRecordUnvalidated(store, recordId, action, blockReason, fail, now) ==
    IF fail
    THEN [ok |-> FALSE, code |-> "NETWORK_ERROR", store |-> store]
    ELSE IF recordId \notin DOMAIN store
    THEN [ok |-> FALSE, code |-> "NOT_FOUND", store |-> store]
    ELSE LET record == store[recordId]
             nextStatus == getNextStatus(record.status, action)
         IN  IF nextStatus = Null
             THEN [ok |-> TRUE, code |-> Null, store |-> store]
             ELSE [ok |-> TRUE, code |-> Null,
                   store |-> [store EXCEPT ![recordId] =
                       [status |-> nextStatus,
                        updatedAt |-> now,
                        blockReason |-> IF action = "block" THEN blockReason
                                        ELSE record.blockReason]]]

\* mockApi.updateRecord after its delay; fail is shouldFail()
updateRecord(store, recordId, action, blockReason, fail, now) ==
    IF fail
    THEN [ok |-> FALSE, code |-> "NETWORK_ERROR", store |-> store]
    ELSE IF recordId \notin DOMAIN store
    THEN [ok |-> FALSE, code |-> "NOT_FOUND", store |-> store]
    ELSE LET record == store[recordId]
             nextStatus == getNextStatus(record.status, action)
         IN  IF nextStatus = Null
             THEN [ok |-> FALSE, code |-> "INVALID_TRANSITION", store |-> store]
             ELSE [ok |-> TRUE, code |-> Null,
                   store |-> [store EXCEPT ![recordId] =
                       [status |-> nextStatus,
                        updatedAt |-> now,
                        blockReason |-> IF action = "block" THEN blockReason
                                        ELSE record.blockReason]]]

----------------------------------------------------------------------------
(* Single record mutation *)

\* the value of a ContentRecord variable that is undefined
NoRecord == [status |-> Null, updatedAt |-> 0, blockReason |-> Undefined]

\* findRecord falling back to a blank record for an unknown id
findRecordOrBlank(recordId) ==
    IF recordId \in DOMAIN cache THEN cache[recordId]
    ELSE [status |-> "Queued", updatedAt |-> 0, blockReason |-> Undefined]

\* findRecord reading the record from the backing store instead of the cache
findRecordFromStore(recordId) ==
    IF recordId \in DOMAIN cache THEN recordsStore[recordId] ELSE NoRecord

\* onMutate: "Find the record in any cache"; NoRecord when no cache holds it
findRecord(recordId) ==
    IF recordId \in DOMAIN cache THEN cache[recordId] ELSE NoRecord

\* optimisticRecord that shows Blocked whenever a reason comes with the action
optimisticRecordBlocking(r, nextStatus, blockReason, now) ==
    [status |-> IF blockReason # Undefined THEN "Blocked" ELSE nextStatus,
     updatedAt |-> now,
     blockReason |-> IF blockReason # Undefined THEN blockReason ELSE r.blockReason]

\* optimisticRecord that refreshes the record but keeps its status
optimisticRecordStale(r, nextStatus, blockReason, now) ==
    [status |-> r.status,
     updatedAt |-> now,
     blockReason |-> IF blockReason # Undefined THEN blockReason ELSE r.blockReason]

\* onMutate: the updater of setQueriesData for the record with the mutated id
optimisticRecord(r, nextStatus, blockReason, now) ==
    [status |-> nextStatus,
     updatedAt |-> now,
     blockReason |-> IF blockReason # Undefined THEN blockReason ELSE r.blockReason]

\* rollbackRecord that leaves the current record in place
rollbackRecordSkipped(r, previousRecord) == r

\* onError: the updater of setQueriesData for the record with the mutated id
rollbackRecord(r, previousRecord) == previousRecord

NoCall == [handler |-> "none", error |-> Null, mutationId |-> 0, recordId |-> Null,
           action |-> Null, blockReason |-> Undefined, operationId |-> 0,
           previousStatus |-> Null, previousReason |-> Undefined, nextStatus |-> Null,
           recordIds |-> << >>, successful |-> << >>, failed |-> << >>,
           toast |-> Null, requires |-> Null]

\* mutate(params): onMutate of useRecordMutation, and onError when it throws.
\* A mutation whose onMutate throws has no context: onError neither rolls back
\* nor removes an operation, and mutationFn is not called.
Mutate(recordId, action, blockReason) ==
    /\ issued' = issued + 1
    /\ calls' = calls + 1
    /\ UNCHANGED <<recordsStore, batches>>
    /\ LET previousRecord == findRecord(recordId)
           mutation == [recordId |-> recordId, action |-> action,
                        blockReason |-> blockReason, status |-> "error",
                        error |-> Null, previousRecord |-> NoRecord, operationId |-> 0]
           call == [NoCall EXCEPT !.mutationId = issued + 1,
                                  !.recordId = recordId, !.action = action,
                                  !.blockReason = blockReason]
       IN  IF previousRecord = NoRecord
           THEN \* throw new Error('Record not found')
                /\ UNCHANGED <<cache, operations, nextOp, clock>>
                /\ mutations' = (issued + 1 :>
                        [mutation EXCEPT !.error = "Record not found"]) @@ mutations
                /\ last' = [call EXCEPT !.handler = "onError",
                                        !.error = "Record not found"]
           ELSE LET operationId == nextOp + 1
                    now == clock + 1
                    nextStatus == getNextStatus(previousRecord.status, action)
                    tracked == [call EXCEPT !.operationId = operationId,
                                            !.previousStatus = previousRecord.status,
                                            !.previousReason = previousRecord.blockReason,
                                            !.nextStatus = nextStatus]
                IN  /\ nextOp' = operationId
                    /\ clock' = now
                    /\ operations' = addOperation(operations, operationId, recordId,
                                                  action, previousRecord.status, now)
                    /\ IF nextStatus = Null
                       THEN \* throw new Error('Invalid transition')
                            /\ UNCHANGED cache
                            /\ mutations' = (issued + 1 :>
                                    [mutation EXCEPT !.error = "Invalid transition"])
                                    @@ mutations
                            /\ last' = [tracked EXCEPT !.handler = "onError",
                                                       !.error = "Invalid transition"]
                       ELSE /\ cache' = [id \in DOMAIN cache |->
                                    IF id = recordId
                                    THEN optimisticRecord(cache[id], nextStatus,
                                                          blockReason, now)
                                    ELSE cache[id]]
                            /\ mutations' = (issued + 1 :>
                                    [mutation EXCEPT !.status = "pending",
                                                     !.previousRecord = previousRecord,
                                                     !.operationId = operationId])
                                    @@ mutations
                            /\ last' = [tracked EXCEPT !.handler = "onMutate"]

\* a settlement that, when the backing call fails, leaves the mutation pending
\* to call again instead of running onError
SettleRetrying(mid, fail) ==
    /\ mid \in DOMAIN mutations
    /\ mutations[mid].status = "pending"
    /\ LET m == mutations[mid]
           now == clock + 1
           res == updateRecord(recordsStore, m.recordId, m.action, m.blockReason, fail, now)
           call == [NoCall EXCEPT !.mutationId = mid,
                                  !.recordId = m.recordId, !.action = m.action,
                                  !.blockReason = m.blockReason,
                                  !.operationId = m.operationId,
                                  !.previousStatus = m.previousRecord.status,
                                  !.previousReason = m.previousRecord.blockReason,
                                  !.nextStatus = getNextStatus(m.previousRecord.status,
                                                               m.action)]
       IN  /\ recordsStore' = res.store
           /\ clock' = now
           /\ operations' = IF res.ok
                            THEN removeOperation(operations, m.operationId, m.recordId)
                            ELSE operations
           /\ IF res.ok
              THEN /\ UNCHANGED cache
                   /\ mutations' = [mutations EXCEPT ![mid].status = "success"]
                   /\ last' = [call EXCEPT !.handler = "onSuccess"]
              ELSE UNCHANGED <<cache, mutations, last>>
    /\ UNCHANGED <<batches, issued, calls, nextOp>>

\* the backing call of mutation mid settles: updateRecord, then onSuccess or onError
Settle(mid, fail) ==
    /\ mid \in DOMAIN mutations
    /\ mutations[mid].status = "pending"
    /\ LET m == mutations[mid]
           now == clock + 1
           res == updateRecord(recordsStore, m.recordId, m.action, m.blockReason, fail, now)
           call == [NoCall EXCEPT !.mutationId = mid,
                                  !.recordId = m.recordId, !.action = m.action,
                                  !.blockReason = m.blockReason,
                                  !.operationId = m.operationId,
                                  !.previousStatus = m.previousRecord.status,
                                  !.previousReason = m.previousRecord.blockReason,
                                  !.nextStatus = getNextStatus(m.previousRecord.status,
                                                               m.action)]
       IN  /\ recordsStore' = res.store
           /\ clock' = now
           /\ operations' = removeOperation(operations, m.operationId, m.recordId)
           /\ IF res.ok
              THEN /\ UNCHANGED cache
                   /\ mutations' = [mutations EXCEPT ![mid].status = "success"]
                   /\ last' = [call EXCEPT !.handler = "onSuccess"]
              ELSE /\ cache' = [id \in DOMAIN cache |->
                                   IF id = m.recordId
                                   THEN rollbackRecord(cache[id], m.previousRecord)
                                   ELSE cache[id]]
                   /\ mutations' = [mutations EXCEPT ![mid].status = "error",
                                                     ![mid].error = res.code]
                   /\ last' = [call EXCEPT !.handler = "onError", !.error = res.code]
    /\ UNCHANGED <<batches, issued, calls, nextOp>>

----------------------------------------------------------------------------
(* Batch mutation *)

\* onMutate of useBatchMutation, first loop: snapshot and track every record found
RECURSIVE trackRecords(_, _, _, _)
trackRecords(acc, recordIds, action, now) ==
    IF recordIds = << >>
    THEN acc
    ELSE LET recordId == Head(recordIds)
         IN  IF recordId \in DOMAIN cache /\ recordId \notin DOMAIN acc.previousRecords
             THEN LET opId == acc.nextOp + 1
                  IN  trackRecords(
                        [ops |-> addOperation(acc.ops, opId, recordId, action,
                                              cache[recordId].status, now),
                         nextOp |-> opId,
                         previousRecords |-> (recordId :> cache[recordId]) @@ acc.previousRecords,
                         operationIds |-> (recordId :> opId) @@ acc.operationIds],
                        Tail(recordIds), action, now)
             ELSE trackRecords(acc, Tail(recordIds), action, now)

Range(seq) == {seq[i] : i \in DOMAIN seq}

\* batchOptimisticRecord without the check that the action has a target
batchOptimisticRecordUnchecked(r, id, recordIds, action, blockReason, now) ==
    IF id \in Range(recordIds)
    THEN [status |-> getNextStatus(r.status, action),
          updatedAt |-> now,
          blockReason |-> IF blockReason # Undefined THEN blockReason ELSE r.blockReason]
    ELSE r

\* batchOptimisticRecord applied only when the action is valid for every
\* selected record: one invalid record holds back the others
batchOptimisticRecordAllOrNothing(r, id, recordIds, action, blockReason, now) ==
    IF /\ id \in Range(recordIds)
       /\ \A other \in Range(recordIds) \cap DOMAIN cache :
             getNextStatus(cache[other].status, action) # Null
    THEN [status |-> getNextStatus(r.status, action),
          updatedAt |-> now,
          blockReason |-> IF blockReason # Undefined THEN blockReason ELSE r.blockReason]
    ELSE r

\* the updater of setQueriesData in the batch onMutate
batchOptimisticRecord(r, id, recordIds, action, blockReason, now) ==
    IF id \in Range(recordIds) /\ getNextStatus(r.status, action) # Null
    THEN [status |-> getNextStatus(r.status, action),
          updatedAt |-> now,
          blockReason |-> IF blockReason # Undefined THEN blockReason ELSE r.blockReason]
    ELSE r

\* batchMutation.mutate(params): onMutate of useBatchMutation
BatchMutate(recordIds, action, blockReason) ==
    /\ issued' = issued + 1
    /\ calls' = calls + Len(recordIds)
    /\ LET now == clock + 1
           tracked == trackRecords([ops |-> operations, nextOp |-> nextOp,
                                    previousRecords |-> << >>, operationIds |-> << >>],
                                   recordIds, action, now)
       IN  /\ clock' = now
           /\ nextOp' = tracked.nextOp
           /\ operations' = tracked.ops
           /\ cache' = [id \in DOMAIN cache |->
                           batchOptimisticRecord(cache[id], id, recordIds, action,
                                                 blockReason, now)]
           /\ batches' = (issued + 1 :>
                   [recordIds |-> recordIds, action |-> action, blockReason |-> blockReason,
                    previousRecords |-> tracked.previousRecords,
                    operationIds |-> tracked.operationIds,
                    todo |-> Range(recordIds), status |-> "pending",
                    successful |-> << >>, failed |-> << >>]) @@ batches
           /\ last' = [NoCall EXCEPT !.handler = "batch.onMutate",
                                     !.mutationId = issued + 1,
                                     !.recordIds = recordIds, !.action = action,
                                     !.blockReason = blockReason]
    /\ UNCHANGED <<recordsStore, mutations>>

\* onSuccess of useBatchMutation, first loop: remove every tracked operation
RECURSIVE removeOperations(_, _)
removeOperations(ops, operationIds) ==
    IF DOMAIN operationIds = {}
    THEN ops
    ELSE LET recordId == CHOOSE id \in DOMAIN operationIds : TRUE
         IN  removeOperations(removeOperation(ops, operationIds[recordId], recordId),
                              [id \in DOMAIN operationIds \ {recordId} |-> operationIds[id]])

actionRequires ==
    [review |-> "Queued", approve |-> "InReview", publish |-> "Approved",
     block |-> "any status"]

\* batchToast reporting every result with a failure as all-failed
batchToastNoPartial(successCount, failCount, action) ==
    IF failCount = 0 /\ successCount > 0
    THEN [kind |-> "success", requires |-> Null]
    ELSE IF failCount > 0
    THEN [kind |-> "error", requires |-> actionRequires[action]]
    ELSE [kind |-> Null, requires |-> Null]

\* batchToast naming, for an all-failed batch, the status the action leads to
batchToastTargetLabel(successCount, failCount, action) ==
    IF failCount = 0 /\ successCount > 0
    THEN [kind |-> "success", requires |-> Null]
    ELSE IF successCount = 0 /\ failCount > 0
    THEN [kind |-> "error",
          requires |-> IF action = "block" THEN "any status"
                       ELSE getNextStatus(actionRequires[action], action)]
    ELSE IF failCount > 0
    THEN [kind |-> "warning", requires |-> Null]
    ELSE [kind |-> Null, requires |-> Null]

\* onSuccess of useBatchMutation: the summary toast
batchToast(successCount, failCount, action) ==
    IF failCount = 0 /\ successCount > 0
    THEN [kind |-> "success", requires |-> Null]
    ELSE IF successCount = 0 /\ failCount > 0
    THEN [kind |-> "error", requires |-> actionRequires[action]]
    ELSE IF failCount > 0
    THEN [kind |-> "warning", requires |-> Null]
    ELSE [kind |-> Null, requires |-> Null]

\* batchUpdate whose catch drops the failure instead of pushing it to failed
BatchUpdateSwallowing(mid, recordId, fail) ==
    /\ mid \in DOMAIN batches
    /\ recordId \in batches[mid].todo
    /\ LET b == batches[mid]
           now == clock + 1
           res == updateRecord(recordsStore, recordId, b.action, b.blockReason, fail, now)
           successful == IF res.ok
                         THEN Append(b.successful,
                                     [id |-> recordId, record |-> res.store[recordId]])
                         ELSE b.successful
           failed == b.failed
           todo == b.todo \ {recordId}
           call == [NoCall EXCEPT !.mutationId = mid, !.recordId = recordId,
                                  !.recordIds = b.recordIds, !.action = b.action,
                                  !.blockReason = b.blockReason,
                                  !.error = res.code,
                                  !.successful = successful, !.failed = failed]
       IN  /\ recordsStore' = res.store
           /\ clock' = now
           /\ IF todo # {}
              THEN /\ batches' = [batches EXCEPT ![mid].todo = todo,
                                                 ![mid].successful = successful,
                                                 ![mid].failed = failed]
                   /\ last' = [call EXCEPT !.handler = "batchUpdate"]
                   /\ UNCHANGED operations
              ELSE LET toast == batchToast(Len(successful), Len(failed), b.action)
                   IN  /\ batches' = [batches EXCEPT ![mid].todo = todo,
                                                      ![mid].successful = successful,
                                                      ![mid].failed = failed,
                                                      ![mid].status = "success"]
                       /\ operations' = removeOperations(operations, b.operationIds)
                       /\ last' = [call EXCEPT !.handler = "batch.onSuccess",
                                               !.toast = toast.kind,
                                               !.requires = toast.requires]
    /\ UNCHANGED <<cache, mutations, issued, calls, nextOp>>

\* one updateRecord of mockApi.batchUpdate ends; with the last one Promise.all
\* resolves and onSuccess runs
BatchUpdate(mid, recordId, fail) ==
    /\ mid \in DOMAIN batches
    /\ recordId \in batches[mid].todo
    /\ LET b == batches[mid]
           now == clock + 1
           res == updateRecord(recordsStore, recordId, b.action, b.blockReason, fail, now)
           successful == IF res.ok
                         THEN Append(b.successful,
                                     [id |-> recordId, record |-> res.store[recordId]])
                         ELSE b.successful
           failed == IF res.ok THEN b.failed
                     ELSE Append(b.failed, [recordId |-> recordId, error |-> res.code])
           todo == b.todo \ {recordId}
           call == [NoCall EXCEPT !.mutationId = mid, !.recordId = recordId,
                                  !.recordIds = b.recordIds, !.action = b.action,
                                  !.blockReason = b.blockReason,
                                  !.error = res.code,
                                  !.successful = successful, !.failed = failed]
       IN  /\ recordsStore' = res.store
           /\ clock' = now
           /\ IF todo # {}
              THEN /\ batches' = [batches EXCEPT ![mid].todo = todo,
                                                 ![mid].successful = successful,
                                                 ![mid].failed = failed]
                   /\ last' = [call EXCEPT !.handler = "batchUpdate"]
                   /\ UNCHANGED operations
              ELSE LET toast == batchToast(Len(successful), Len(failed), b.action)
                   IN  /\ batches' = [batches EXCEPT ![mid].todo = todo,
                                                      ![mid].successful = successful,
                                                      ![mid].failed = failed,
                                                      ![mid].status = "success"]
                       /\ operations' = removeOperations(operations, b.operationIds)
                       /\ last' = [call EXCEPT !.handler = "batch.onSuccess",
                                               !.toast = toast.kind,
                                               !.requires = toast.requires]
    /\ UNCHANGED <<cache, mutations, issued, calls, nextOp>>

----------------------------------------------------------------------------

InitialRecord(status) ==
    [status |-> status, updatedAt |-> 0,
     blockReason |-> IF status = "Blocked" THEN InitialBlockReason ELSE Undefined]

Init ==
    /\ \E statusOf \in InitialStatuses :
          /\ recordsStore = [id \in RecordIds |-> InitialRecord(statusOf[id])]
          /\ cache = [id \in CachedIds |-> InitialRecord(statusOf[id])]
    /\ operations = << >>
    /\ mutations = << >>
    /\ batches = << >>
    /\ issued = 0
    /\ calls = 0
    /\ nextOp = 0
    /\ clock = 0
    /\ last = NoCall

Next ==
    \/ \E recordId \in SingleIds, action \in Actions, blockReason \in Reasons \cup {Undefined} :
          calls < MaxCalls /\ Mutate(recordId, action, blockReason)
    \/ \E mid \in DOMAIN mutations, fail \in BOOLEAN : Settle(mid, fail)
    \/ \E recordIds \in Selections, action \in Actions, blockReason \in Reasons \cup {Undefined} :
          calls + Len(recordIds) <= MaxCalls /\ BatchMutate(recordIds, action, blockReason)
    \/ \E mid \in DOMAIN batches, recordId \in RecordIds, fail \in BOOLEAN :
          BatchUpdate(mid, recordId, fail)

Spec == Init /\ [][Next]_vars

\* Single mutations of one record only, one call more than MaxCalls allows
NextSingle ==
    \/ \E action \in Actions, blockReason \in Reasons \cup {Undefined} :
          calls < MaxSingleCalls /\ Mutate("e1", action, blockReason)
    \/ \E mid \in DOMAIN mutations, fail \in BOOLEAN : Settle(mid, fail)

SpecSingle == Init /\ [][NextSingle]_vars

\* Single mutations of the two cached records, no batch
NextPair ==
    \/ \E recordId \in CachedIds, action \in Actions, blockReason \in Reasons \cup {Undefined} :
          calls < MaxPairCalls /\ Mutate(recordId, action, blockReason)
    \/ \E mid \in DOMAIN mutations, fail \in BOOLEAN : Settle(mid, fail)

SpecPair == Init /\ [][NextPair]_vars

\* Single mutations of one record without a reason; the timer of every
\* backing call fires: updateRecord always returns after its delay
NextOne ==
    \/ \E action \in Actions : calls < MaxPairCalls /\ Mutate("e1", action, Undefined)
    \/ \E mid \in DOMAIN mutations, fail \in BOOLEAN : Settle(mid, fail)

SpecOneFair ==
    /\ Init
    /\ [][NextOne]_vars
    /\ \A mid \in 1..(MaxPairCalls + 1) : WF_vars(\E fail \in BOOLEAN : Settle(mid, fail))

----------------------------------------------------------------------------
(* The pending operation tracker alone, called in any order *)

\* usePendingOpsStore.addOperation(recordId, action, previousStatus)
TrackerAdd(recordId, action, previousStatus) ==
    /\ nextOp' = nextOp + 1
    /\ clock' = clock + 1
    /\ operations' = addOperation(operations, nextOp + 1, recordId, action,
                                  previousStatus, clock + 1)
    /\ last' = [NoCall EXCEPT !.handler = "addOperation",
                              !.operationId = nextOp + 1, !.recordId = recordId,
                              !.action = action, !.previousStatus = previousStatus]
    /\ UNCHANGED <<cache, recordsStore, mutations, batches, issued, calls>>

\* usePendingOpsStore.removeOperation(operationId, recordId)
TrackerRemove(operationId, recordId) ==
    /\ operations' = removeOperation(operations, operationId, recordId)
    /\ last' = [NoCall EXCEPT !.handler = "removeOperation",
                              !.operationId = operationId, !.recordId = recordId]
    /\ UNCHANGED <<cache, recordsStore, mutations, batches, issued, calls, nextOp, clock>>

\* usePendingOpsStore.clearOperations(recordId)
TrackerClear(recordId) ==
    /\ operations' = clearOperations(operations, recordId)
    /\ last' = [NoCall EXCEPT !.handler = "clearOperations", !.recordId = recordId]
    /\ UNCHANGED <<cache, recordsStore, mutations, batches, issued, calls, nextOp, clock>>

TrackerActions == {"approve", "block"}

TrackerInit == Init /\ \A recordId \in DOMAIN cache : cache[recordId].status = "Queued"

NextTracker ==
    \/ \E recordId \in CachedIds, action \in TrackerActions :
          nextOp < MaxOps /\ TrackerAdd(recordId, action, cache[recordId].status)
    \/ \E operationId \in 1..MaxOps, recordId \in CachedIds :
          operationId <= nextOp /\ TrackerRemove(operationId, recordId)
    \/ \E recordId \in CachedIds : TrackerClear(recordId)

TrackerSpec == TrackerInit /\ [][NextTracker]_vars

----------------------------------------------------------------------------
(* Vocabulary of the properties *)

OperationIdsOf(recordId) ==
    {getOperations(recordId)[i].id : i \in DOMAIN getOperations(recordId)}

\* single mutations on recordId whose backing call has not settled
PendingMutationsOn(recordId) ==
    {mid \in DOMAIN mutations :
        mutations[mid].recordId = recordId /\ mutations[mid].status = "pending"}

\* batch mutations tracking recordId whose backing call has not settled
PendingBatchesOn(recordId) ==
    {mid \in DOMAIN batches :
        batches[mid].status = "pending" /\ recordId \in DOMAIN batches[mid].operationIds}

SyncErrors == {"Record not found", "Invalid transition"}

\* the last handler was the onError of a single mutation whose backing call failed
BackingCallFailed ==
    last.handler = "onError" /\ last.error \notin SyncErrors

\* the last handler was a call of mutate (accepted or rejected in onMutate)
MutateCalled ==
    \/ last.handler = "onMutate"
    \/ last.handler = "onError" /\ last.error \in SyncErrors

TargetOf(mid) == getNextStatus(mutations[mid].previousRecord.status, mutations[mid].action)

----------------------------------------------------------------------------
(* C1 *)

\* the transition table of the workflow, row by row
TableTarget(status, action) ==
    CASE action = "review" /\ status = "Queued" -> "InReview"
      [] action = "approve" /\ status = "InReview" -> "Approved"
      [] action = "publish" /\ status = "Approved" -> "Published"
      [] action = "block" /\ status \in {"Queued", "InReview", "Approved", "Published"}
            -> "Blocked"
      [] OTHER -> Null

\* C1: for each of the 20 (status, action) pairs getNextStatus returns the
\* target the transition table lists and null for a pair the table does not
\* list, isValidAction is true exactly for the listed pairs, and that is the
\* value every call of mutate computed.
C1_TransitionTable ==
    /\ \A status \in Statuses, action \in Actions :
          /\ getNextStatus(status, action) = TableTarget(status, action)
          /\ isValidAction(status, action) <=> (TableTarget(status, action) # Null)
    /\ (MutateCalled /\ last.error # "Record not found")
          => last.nextStatus = TableTarget(last.previousStatus, last.action)

\* a rejected pair (Blocked, approve) met after an accepted block of the same record
C1_Witness ==
    /\ last.handler = "onError" /\ last.error = "Invalid transition"
    /\ last.previousStatus = "Blocked" /\ last.action = "approve"
    /\ last.nextStatus = Null
    /\ \E mid \in DOMAIN mutations :
          /\ mutations[mid].recordId = last.recordId
          /\ mutations[mid].action = "block" /\ mutations[mid].status = "pending"

----------------------------------------------------------------------------
(* C2 *)

\* C2: after a mutate that is rejected as an invalid transition, the mutation
\* has failed and the tracker holds no operation created by that call.
C2_RejectedCreatesNoOperation ==
    (last.handler = "onError" /\ last.error = "Invalid transition")
        => /\ mutations[last.mutationId].status = "error"
           /\ last.operationId \notin OperationIdsOf(last.recordId)

----------------------------------------------------------------------------
(* C3 *)

\* C3: a call of mutate for a record id that no cache holds fails with
\* 'Record not found' and leaves the tracker and the cache as they were.
C3_NotFoundLeavesTracker ==
    [][(issued' = issued + 1 /\ last'.recordIds = << >>
            /\ last'.recordId \notin DOMAIN cache)
        => /\ last'.handler = "onError" /\ last'.error = "Record not found"
           /\ mutations'[last'.mutationId].status = "error"
           /\ operations' = operations
           /\ cache' = cache]_vars

\* a not-found mutate while another record has a pending operation
C3_Witness ==
    /\ last.handler = "onError" /\ last.error = "Record not found"
    /\ last.recordId \notin DOMAIN cache
    /\ \E recordId \in DOMAIN cache : hasPendingOps(recordId)

----------------------------------------------------------------------------
(* C4 *)

\* C4: after the backing call of a mutation has failed and onError has run,
\* the record's status in the cache is the operation's previousStatus, and
\* the record has no pending operation unless another mutation of it (single
\* or batch) is still unsettled.
C4_FailedMutateRestoresAnchor ==
    BackingCallFailed
        => /\ cache[last.recordId].status = last.previousStatus
           /\ (PendingMutationsOn(last.recordId) = {} /\ PendingBatchesOn(last.recordId) = {})
                 => ~hasPendingOps(last.recordId)

\* the part of C4 about the status alone
C4_StatusPart ==
    BackingCallFailed => cache[last.recordId].status = last.previousStatus

----------------------------------------------------------------------------
(* C5 *)

\* C5 as stated: while an accepted mutation is unsettled, the cache shows its
\* computed next status and the record has pending operations.
C5_VisibleUntilSettled ==
    \A mid \in DOMAIN mutations :
        mutations[mid].status = "pending"
            => /\ cache[mutations[mid].recordId].status = TargetOf(mid)
               /\ hasPendingOps(mutations[mid].recordId)

\* this step writes the record in the cache: an optimistic apply or a rollback
WritesRecord(recordId) ==
    /\ last'.handler \in {"onMutate", "onError", "batch.onMutate"}
    /\ last'.recordId = recordId \/ recordId \in Range(last'.recordIds)

\* C5 amended: right after an accepted mutate (before its backing call has
\* returned) the cache shows the computed next status; the record has the
\* mutation's pending operation in every state until the backing call settles;
\* and the status stays visible across every step that is not an optimistic
\* apply or a rollback of the same record.
C5_VisibleUntilOverwritten ==
    /\ [](\A mid \in DOMAIN mutations :
            mutations[mid].status = "pending"
                => /\ hasPendingOps(mutations[mid].recordId)
                   /\ mutations[mid].operationId \in OperationIdsOf(mutations[mid].recordId))
    /\ [](last.handler = "onMutate"
            => /\ mutations[last.mutationId].status = "pending"
               /\ last.nextStatus \in Statuses
               /\ last.nextStatus = TableTarget(last.previousStatus, last.action)
               /\ cache[last.recordId].status = last.nextStatus)
    /\ [][\A mid \in DOMAIN mutations :
            (/\ mutations[mid].status = "pending"
             /\ mutations'[mid].status = "pending"
             /\ cache[mutations[mid].recordId].status = TargetOf(mid)
             /\ ~WritesRecord(mutations[mid].recordId))
                => cache'[mutations[mid].recordId].status = TargetOf(mid)]_vars

\* an unsettled mutation whose status is still visible after a later handler ran
C5_Witness ==
    \E mid \in DOMAIN mutations :
        /\ mutations[mid].status = "pending"
        /\ last.mutationId # mid
        /\ cache[mutations[mid].recordId].status = TargetOf(mid)
        /\ hasPendingOps(mutations[mid].recordId)

----------------------------------------------------------------------------
(* C6 *)

\* C6: the step in which a mutation's backing call succeeds leaves the whole
\* cache as it was and removes from the tracker exactly that mutation's
\* operation, which was there before the step.
C6_SuccessKeepsCache ==
    [][last'.handler = "onSuccess"
        => LET opId == last'.operationId
               recordId == last'.recordId
               before == getOperationsOf(operations, recordId)
           IN  /\ cache' = cache
               /\ \E i \in DOMAIN before : before[i].id = opId
               /\ getOperationsOf(operations', recordId)
                    = SelectSeq(before, LAMBDA op : op.id # opId)
               /\ \A other \in RecordIds \ {recordId} :
                    getOperationsOf(operations', other) = getOperationsOf(operations, other)
      ]_vars

\* approve then block in flight on one record; approve has just succeeded and
\* the cache still shows Blocked
C6_Witness ==
    /\ last.handler = "onSuccess" /\ last.action = "approve"
    /\ cache[last.recordId].status = "Blocked"
    /\ \E mid \in PendingMutationsOn(last.recordId) :
          mutations[mid].action = "block" /\ mid > last.mutationId

----------------------------------------------------------------------------
(* C7 *)

\* C7: after the success of a mutation that is the only one ever issued on its
\* record, the record's blockReason in the cache is the supplied reason when
\* the action is block and the value it had before the mutation otherwise.
C7_ReasonOnlyOnBlock ==
    (/\ last.handler = "onSuccess"
     /\ \A mid \in DOMAIN mutations \ {last.mutationId} :
            mutations[mid].recordId # last.recordId
     /\ \A mid \in DOMAIN batches : last.recordId \notin Range(batches[mid].recordIds))
        => cache[last.recordId].blockReason =
              IF last.action = "block" THEN last.blockReason ELSE last.previousReason

----------------------------------------------------------------------------
(* C8 *)

\* C8: when block is issued on a record whose approve from InReview is still
\* unsettled, the block is accepted, its operation's previousStatus is
\* InReview and the cache shows Blocked.
C8_OverlapAnchor ==
    (/\ MutateCalled /\ last.action = "block"
     /\ \E a \in PendingMutationsOn(last.recordId) :
           /\ a < last.mutationId
           /\ mutations[a].action = "approve"
           /\ mutations[a].previousRecord.status = "InReview")
        => /\ last.handler = "onMutate"
           /\ last.previousStatus = "InReview"
           /\ cache[last.recordId].status = "Blocked"

----------------------------------------------------------------------------
(* C9 *)

\* C9: when the backing call of a mutation A fails while a later mutation B of
\* the same record is unsettled, the cache status becomes A's previousStatus
\* (InReview for approve from InReview, not B's Blocked), A's operation is
\* gone and B's operation is still in the tracker.
C9_RollbackToOwnAnchor ==
    \A b \in DOMAIN mutations :
        (/\ BackingCallFailed
         /\ b > last.mutationId
         /\ b \in PendingMutationsOn(last.recordId))
            => /\ cache[last.recordId].status = last.previousStatus
               /\ last.operationId \notin OperationIdsOf(last.recordId)
               /\ mutations[b].operationId \in OperationIdsOf(last.recordId)

\* approve from InReview has failed while the later block is still unsettled
C9_Witness ==
    /\ BackingCallFailed
    /\ last.action = "approve" /\ last.previousStatus = "InReview"
    /\ \E b \in PendingMutationsOn(last.recordId) :
          b > last.mutationId /\ mutations[b].action = "block"
    /\ cache[last.recordId].status = "InReview"
    /\ getPendingCount(last.recordId) = 1

----------------------------------------------------------------------------
(* C10 *)

\* C10: when the backing call of a mutation A fails after a later mutation B
\* of the same record has succeeded, the cache status is still B's target.
C10_RollbackKeepsCommitted ==
    \A b \in DOMAIN mutations :
        (/\ BackingCallFailed
         /\ b > last.mutationId
         /\ mutations[b].recordId = last.recordId
         /\ mutations[b].status = "success")
            => cache[last.recordId].status = TargetOf(b)

----------------------------------------------------------------------------
(* C11 *)

\* every mutate call so far was a single mutation and each has settled
AllSinglesSettled ==
    /\ batches = << >>
    /\ mutations # << >>
    /\ \A mid \in DOMAIN mutations : mutations[mid].status # "pending"

\* C11: once every issued single mutation has settled, each cached record
\* has the status the backing store holds for it.
C11_FinalStateMatchesStore ==
    AllSinglesSettled
        => \A recordId \in DOMAIN cache :
              cache[recordId].status = recordsStore[recordId].status

----------------------------------------------------------------------------
(* C12 *)

\* C12: once every issued mutation, single or batch, accepted or rejected,
\* has settled, the tracker holds no operation.
C12_TrackerEmptiesOnceSettled ==
    (/\ \A mid \in DOMAIN mutations : mutations[mid].status # "pending"
     /\ \A mid \in DOMAIN batches : batches[mid].status # "pending")
        => /\ operations = << >>
           /\ \A recordId \in RecordIds : ~hasPendingOps(recordId)

----------------------------------------------------------------------------
(* C13 *)

\* the operation ids the handler that ran in this step may remove: its own
OwnOperationIds ==
    IF last'.handler \in {"onSuccess", "onError"}
    THEN {last'.operationId}
    ELSE IF last'.handler = "batch.onSuccess"
    THEN {batches[last'.mutationId].operationIds[id] :
            id \in DOMAIN batches[last'.mutationId].operationIds}
    ELSE {}

AllOperationIds(ops) ==
    UNION {{ops[recordId][i].id : i \in DOMAIN ops[recordId]} : recordId \in DOMAIN ops}

\* C13: the operation of every unsettled accepted mutation (single, or a
\* record tracked by an unsettled batch) is in the tracker, so the record
\* reports pending operations; and a step removes no operation other than
\* those of the mutation that settles in it: a new mutate or the settlement
\* of another mutation removes none.
C13_RemovedOnlyByOwnSettlement ==
    /\ [](\A mid \in DOMAIN mutations :
            mutations[mid].status = "pending"
                => /\ mutations[mid].operationId
                        \in OperationIdsOf(mutations[mid].recordId)
                   /\ hasPendingOps(mutations[mid].recordId))
    /\ [](\A mid \in DOMAIN batches :
            batches[mid].status = "pending"
                => \A id \in DOMAIN batches[mid].operationIds :
                      /\ batches[mid].operationIds[id] \in OperationIdsOf(id)
                      /\ hasPendingOps(id))
    /\ [][AllOperationIds(operations) \ AllOperationIds(operations')
             \subseteq OwnOperationIds]_vars

\* another mutation of the record has just settled and a new one was issued
\* before, yet the unsettled mutation still has its operation
C13_Witness ==
    /\ last.handler \in {"onSuccess", "onError"}
    /\ last.error \notin SyncErrors
    /\ \E mid \in PendingMutationsOn(last.recordId) :
          /\ mid < last.mutationId
          /\ mutations[mid].operationId \in OperationIdsOf(last.recordId)
    /\ hasPendingOps(last.recordId)

----------------------------------------------------------------------------
(* C14 *)

Max(S) == CHOOSE x \in S : \A y \in S : x >= y

\* the single mutations of the record of the last call issued before it
EarlierOn(mid) ==
    {a \in DOMAIN mutations : a < mid /\ mutations[a].recordId = mutations[mid].recordId}

\* C14: when mutation B is accepted and the mutation A issued last before it
\* on the same record has committed, B's anchor is the status A produced; and
\* when B's backing call then fails the cache status is B's anchor again.
C14_AnchorIsCommittedResult ==
    /\ (/\ last.handler = "onMutate"
        /\ EarlierOn(last.mutationId) # {}
        /\ mutations[Max(EarlierOn(last.mutationId))].status = "success")
          => last.previousStatus = TargetOf(Max(EarlierOn(last.mutationId)))
    /\ BackingCallFailed
          => cache[last.recordId].status
                = mutations[last.mutationId].previousRecord.status

----------------------------------------------------------------------------
(* C15 *)

\* every operation of the record belongs to an unsettled single mutation
OnlyPendingSingles(recordId) ==
    /\ PendingBatchesOn(recordId) = {}
    /\ OperationIdsOf(recordId)
          = {mutations[mid].operationId : mid \in PendingMutationsOn(recordId)}

\* C15: whenever a record has pending operations, all of accepted single
\* mutations, its cache status is the target of the operation created last:
\* getNextStatus(previousStatus, action) of that operation.
C15_LatestPendingTargetShown ==
    \A recordId \in DOMAIN cache :
        (hasPendingOps(recordId) /\ OnlyPendingSingles(recordId))
            => LET ops == getOperations(recordId)
                   latest == ops[Len(ops)]
               IN  cache[recordId].status
                      = getNextStatus(latest.previousStatus, latest.action)

----------------------------------------------------------------------------
(* C16 *)

\* the operation of the record created last among those in the tracker: ids
\* are handed out in creation order
NewestOperation(recordId) ==
    LET ops == getOperations(recordId)
    IN  ops[CHOOSE i \in DOMAIN ops : \A j \in DOMAIN ops : ops[j].id <= ops[i].id]

\* C16: after any interleaving of addOperation and removeOperation calls,
\* getLatestAction of a record is the action of the operation created last
\* among those still in the tracker, and null when the record has none.
C16_LatestActionIsNewestPending ==
    \A recordId \in RecordIds :
        getLatestAction(recordId)
            = IF getOperations(recordId) = << >>
              THEN Null
              ELSE NewestOperation(recordId).action

\* the newest operation of a record has just been removed while two older
\* ones with different actions remain
C16_Witness ==
    /\ last.handler = "removeOperation"
    /\ last.operationId \notin AllOperationIds(operations)
    /\ getPendingCount(last.recordId) = 2
    /\ \A i \in DOMAIN getOperations(last.recordId) :
          getOperations(last.recordId)[i].id < last.operationId
    /\ getOperations(last.recordId)[1].action # getOperations(last.recordId)[2].action
    /\ getLatestAction(last.recordId) = getOperations(last.recordId)[2].action

----------------------------------------------------------------------------
(* C17 *)

WithoutIndex(seq, k) == SubSeq(seq, 1, k - 1) \o SubSeq(seq, k + 1, Len(seq))

\* C17: a removeOperation(operationId, recordId) call removes exactly the
\* operation of that record with that id and leaves the others of the record
\* in place and in order, leaves every other record's list as it was, changes
\* nothing when the record has no operation with that id, and makes
\* hasPendingOps false exactly when the removed operation was the record's
\* only one.
C17_RemoveExactlyOne ==
    [][last'.handler = "removeOperation"
        => LET recordId == last'.recordId
               before == getOperationsOf(operations, recordId)
               after == getOperationsOf(operations', recordId)
               found == {i \in DOMAIN before : before[i].id = last'.operationId}
           IN  /\ \A other \in RecordIds \ {recordId} :
                     getOperationsOf(operations', other)
                        = getOperationsOf(operations, other)
               /\ found = {} => operations' = operations
               /\ found # {} => \E k \in found : after = WithoutIndex(before, k)
               /\ (recordId \in DOMAIN operations /\ recordId \notin DOMAIN operations')
                     <=> (found # {} /\ Len(before) = 1)
               /\ recordId \in DOMAIN operations' => Len(operations'[recordId]) > 0
      ]_vars

\* the middle one of three operations of a record has been removed
C17_Witness ==
    /\ last.handler = "removeOperation"
    /\ getPendingCount(last.recordId) = 2
    /\ getOperations(last.recordId)[1].id < last.operationId
    /\ last.operationId < getOperations(last.recordId)[2].id

\* a second removeOperation of an id already removed, the record still having
\* operations and the other record too
C17_WitnessAbsent ==
    /\ last.handler = "removeOperation"
    /\ last.operationId \notin AllOperationIds(operations)
    /\ hasPendingOps(last.recordId)
    /\ \E other \in CachedIds \ {last.recordId} : hasPendingOps(other)

----------------------------------------------------------------------------
(* C18 *)

\* C18: an addOperation call is possible whatever operations the record has
\* pending, and with k of them it returns an id no operation in the tracker
\* has, the record's list becomes the k earlier operations unchanged followed
\* by the new one, and the other records' lists are as they were.
C18_AddAppendsFresh ==
    /\ [](nextOp < MaxOps
            => \A recordId \in CachedIds, action \in TrackerActions :
                  ENABLED TrackerAdd(recordId, action, cache[recordId].status))
    /\ [][last'.handler = "addOperation"
            => LET recordId == last'.recordId
                   before == getOperationsOf(operations, recordId)
                   after == getOperationsOf(operations', recordId)
               IN  /\ last'.operationId \notin AllOperationIds(operations)
                   /\ Len(after) = Len(before) + 1
                   /\ SubSeq(after, 1, Len(before)) = before
                   /\ after[Len(after)].id = last'.operationId
                   /\ after[Len(after)].action = last'.action
                   /\ after[Len(after)].previousStatus = last'.previousStatus
                   /\ \A other \in RecordIds \ {recordId} :
                         getOperationsOf(operations', other)
                            = getOperationsOf(operations, other)
          ]_vars

\* a third operation added to a record that had two pending
C18_Witness ==
    /\ last.handler = "addOperation"
    /\ getPendingCount(last.recordId) = 3
    /\ getOperations(last.recordId)[3].id = last.operationId

----------------------------------------------------------------------------
(* C19 *)

IdsOf(entries, field) == {entries[i][field] : i \in DOMAIN entries}

\* C19: a batch produces its result only when the updateRecord call of every
\* requested id has settled; until then every settled id, and in the result
\* every requested id, is in exactly one of successful and failed, once, so
\* the two lengths of the result add up to the number of requested ids.
C19_BatchResultPartition ==
    /\ \A mid \in DOMAIN batches :
          LET b == batches[mid]
              ok == IdsOf(b.successful, "id")
              ko == IdsOf(b.failed, "recordId")
          IN  /\ b.status = "success" <=> b.todo = {}
              /\ ok \cap ko = {}
              /\ ok \cup ko = Range(b.recordIds) \ b.todo
              /\ Cardinality(ok) = Len(b.successful)
              /\ Cardinality(ko) = Len(b.failed)
    /\ last.handler = "batch.onSuccess"
          => /\ batches[last.mutationId].todo = {}
             /\ last.successful = batches[last.mutationId].successful
             /\ last.failed = batches[last.mutationId].failed
             /\ \A id \in Range(last.recordIds) :
                   (id \in IdsOf(last.successful, "id"))
                      # (id \in IdsOf(last.failed, "recordId"))
             /\ Len(last.successful) + Len(last.failed) = Len(last.recordIds)
    /\ last.handler = "batchUpdate" => batches[last.mutationId].todo # {}

\* a batch result with one record in each list
C19_Witness ==
    /\ last.handler = "batch.onSuccess"
    /\ Len(last.successful) = 1
    /\ Len(last.failed) = 1

----------------------------------------------------------------------------
(* C20 *)

\* C20: when a batch has settled, every record in failed that the cache
\* holds shows the status it had when the batch began and has no pending
\* operation.
C20_FailedBatchRecordsRolledBack ==
    (last.handler = "batch.onSuccess" /\ mutations = << >>)
        => \A i \in DOMAIN last.failed :
              LET id == last.failed[i].recordId
              IN  id \in DOMAIN cache
                    => /\ cache[id].status
                            = batches[last.mutationId].previousRecords[id].status
                       /\ ~hasPendingOps(id)

\* the half of C20 the code keeps: no operation of a settled batch is left
C20_OperationsPart ==
    (last.handler = "batch.onSuccess" /\ mutations = << >>)
        => \A id \in Range(last.recordIds) : ~hasPendingOps(id)

----------------------------------------------------------------------------
(* C21 *)

\* the last handler ran for an updateRecord call of a batch
BatchCallEnded == last.handler \in {"batchUpdate", "batch.onSuccess"}

\* the one batch issued is the only mutation of the behaviour
OnlyOneBatch == mutations = << >> /\ Cardinality(DOMAIN batches) = 1

\* C21: in a batch, an updateRecord call that succeeds moves its record in the
\* store to the target of the record's status and touches no other record,
\* and one that fails changes neither the store nor the cache; so when the
\* batch has settled every record in successful has, in the store and (when
\* cached) in the cache, the target of the status it had when the batch
\* began, whichever other records of the batch failed.
C21_BatchEntitiesIndependent ==
    /\ [][BatchCallEnded'
            /\ (batches # batches')
            => LET id == last'.recordId
               IN  /\ cache' = cache
                   /\ \A other \in DOMAIN recordsStore \ {id} :
                         recordsStore'[other] = recordsStore[other]
                   /\ last'.error # Null => recordsStore' = recordsStore
                   /\ last'.error = Null
                         => recordsStore'[id].status
                               = TableTarget(recordsStore[id].status, last'.action)
          ]_vars
    /\ []((last.handler = "batch.onSuccess" /\ OnlyOneBatch)
            => \A i \in DOMAIN last.successful :
                  LET id == last.successful[i].id
                  IN  /\ recordsStore[id].status = last.successful[i].record.status
                      /\ id \in DOMAIN cache
                            => /\ cache[id].status
                                    = TableTarget(
                                        batches[last.mutationId].previousRecords[id].status,
                                        last.action)
                               /\ cache[id].status = recordsStore[id].status)

\* a settled batch whose first call failed and whose second succeeded, the
\* successful record showing its target in cache and store
C21_Witness ==
    /\ last.handler = "batch.onSuccess"
    /\ OnlyOneBatch
    /\ Len(last.failed) = 1 /\ Len(last.successful) = 1
    /\ last.recordId = last.successful[1].id
    /\ last.recordId \in DOMAIN cache
    /\ cache[last.recordId].status = recordsStore[last.recordId].status
    /\ cache[last.recordId].status
          # batches[last.mutationId].previousRecords[last.recordId].status

----------------------------------------------------------------------------
(* C22 *)

\* C22: a batch never settles with an error: whatever the outcomes of its
\* updateRecord calls, all failing included, it is pending until the last
\* call has ended and successful from then on, and the error of every failed
\* call is recorded, with the record's id, as the next entry of failed.
C22_BatchNeverRaises ==
    /\ [](\A mid \in DOMAIN batches :
            /\ batches[mid].status \in {"pending", "success"}
            /\ batches[mid].todo = {} => batches[mid].status = "success")
    /\ []((BatchCallEnded /\ last.error # Null)
            => /\ last.error \in {"NETWORK_ERROR", "NOT_FOUND", "INVALID_TRANSITION"}
               /\ last.failed # << >>
               /\ last.failed[Len(last.failed)]
                     = [recordId |-> last.recordId, error |-> last.error]
               /\ batches[last.mutationId].failed = last.failed)
    /\ [][(BatchCallEnded' /\ batches # batches' /\ last'.error # Null)
            => Len(batches'[last'.mutationId].failed)
                  = Len(batches[last'.mutationId].failed) + 1]_vars

\* a batch all of whose calls failed has settled successfully, for two
\* different reasons
C22_Witness ==
    /\ last.handler = "batch.onSuccess"
    /\ batches[last.mutationId].status = "success"
    /\ last.successful = << >>
    /\ Len(last.failed) = Len(last.recordIds)
    /\ last.failed[1].error # last.failed[2].error

----------------------------------------------------------------------------
(* C23 *)

\* C23: an updateRecord call of a batch that does not fail with a network
\* error puts its record in successful, with the target of its store status,
\* exactly when the action is valid from that status, and otherwise in failed
\* with INVALID_TRANSITION; so the result of a batch with no network error,
\* issued alone, lists each cached record in successful exactly when the
\* action was valid from the status it had when the batch began.
C23_BatchClassifiesByValidity ==
    /\ [][(BatchCallEnded' /\ batches # batches' /\ last'.error # "NETWORK_ERROR")
            => LET id == last'.recordId
                   before == batches[last'.mutationId]
                   after == batches'[last'.mutationId]
                   target == TableTarget(recordsStore[id].status, last'.action)
               IN  /\ target # Null
                         => /\ after.failed = before.failed
                            /\ Len(after.successful) = Len(before.successful) + 1
                            /\ after.successful[Len(after.successful)].id = id
                            /\ after.successful[Len(after.successful)].record.status
                                  = target
                   /\ target = Null
                         => /\ after.successful = before.successful
                            /\ after.failed
                                  = Append(before.failed,
                                           [recordId |-> id,
                                            error |-> "INVALID_TRANSITION"])
          ]_vars
    /\ []((/\ last.handler = "batch.onSuccess"
           /\ OnlyOneBatch
           /\ \A i \in DOMAIN last.failed : last.failed[i].error # "NETWORK_ERROR")
            => \A id \in Range(last.recordIds) \cap DOMAIN cache :
                  LET target == TableTarget(
                                  batches[last.mutationId].previousRecords[id].status,
                                  last.action)
                  IN  /\ (target # Null)
                            <=> (\E i \in DOMAIN last.successful :
                                    /\ last.successful[i].id = id
                                    /\ last.successful[i].record.status = target)
                      /\ (target = Null)
                            <=> (\E i \in DOMAIN last.failed :
                                    /\ last.failed[i].recordId = id
                                    /\ last.failed[i].error = "INVALID_TRANSITION"))

\* [e1: Approved, e2: Queued] with publish: e1 successful at Published, e2
\* failed with INVALID_TRANSITION, the summary partial
C23_Witness ==
    /\ last.handler = "batch.onSuccess"
    /\ OnlyOneBatch
    /\ last.recordIds = <<"e1", "e2">> /\ last.action = "publish"
    /\ batches[last.mutationId].previousRecords["e1"].status = "Approved"
    /\ batches[last.mutationId].previousRecords["e2"].status = "Queued"
    /\ Len(last.successful) = 1
    /\ last.successful[1].id = "e1"
    /\ last.successful[1].record.status = "Published"
    /\ last.failed = << [recordId |-> "e2", error |-> "INVALID_TRANSITION"] >>
    /\ last.toast = "warning"

----------------------------------------------------------------------------
(* C24 *)

\* the sizes a result list of a batch can have
ResultSizes == 0..(MaxCalls + 1)

\* C24: for every non-empty result the summary is exactly one of success,
\* error and warning: success iff failed is empty and successful is not,
\* error iff successful is empty and failed is not, warning iff neither is
\* empty; and that is the summary every settled batch showed.
C24_ThreeWayClassification ==
    /\ \A successCount \in ResultSizes, failCount \in ResultSizes, action \in Actions :
          LET kind == batchToast(successCount, failCount, action).kind
          IN  successCount + failCount > 0
                => /\ kind \in {"success", "error", "warning"}
                   /\ kind = "success" <=> (failCount = 0 /\ successCount > 0)
                   /\ kind = "error" <=> (successCount = 0 /\ failCount > 0)
                   /\ kind = "warning" <=> (successCount > 0 /\ failCount > 0)
    /\ last.handler = "batch.onSuccess"
          => /\ last.toast \in {"success", "error", "warning"}
             /\ last.toast = "success" <=> (last.failed = << >> /\ last.successful # << >>)
             /\ last.toast = "error" <=> (last.successful = << >> /\ last.failed # << >>)
             /\ last.toast = "warning" <=> (last.successful # << >> /\ last.failed # << >>)

\* a batch all of whose records succeeded
C24_Witness ==
    /\ last.handler = "batch.onSuccess"
    /\ last.toast = "success"
    /\ Len(last.successful) = Len(last.recordIds)
    /\ last.failed = << >>

----------------------------------------------------------------------------
(* C25 *)

\* the statuses from which the transition table accepts the action
AcceptedFrom(action) == {status \in Statuses : TableTarget(status, action) # Null}

\* C25: for review, approve and publish the label of actionRequires is the
\* one status from which the transition table accepts the action (Queued,
\* InReview, Approved), and an all-failed batch of such an action reports
\* that label.
C25_RequiredStateLabel ==
    /\ \A action \in {"review", "approve", "publish"} :
          /\ AcceptedFrom(action) = {actionRequires[action]}
          /\ batchToast(0, 1, action).requires = actionRequires[action]
    /\ actionRequires["review"] = "Queued"
    /\ actionRequires["approve"] = "InReview"
    /\ actionRequires["publish"] = "Approved"
    /\ (last.handler = "batch.onSuccess" /\ last.toast = "error" /\ last.action # "block")
          => AcceptedFrom(last.action) = {last.requires}

\* both records Queued, publish: both failed with INVALID_TRANSITION, the
\* summary all-failed with label Approved
C25_Witness ==
    /\ last.handler = "batch.onSuccess"
    /\ last.action = "publish"
    /\ \A id \in DOMAIN batches[last.mutationId].previousRecords :
          batches[last.mutationId].previousRecords[id].status = "Queued"
    /\ last.successful = << >>
    /\ Len(last.failed) = Len(last.recordIds)
    /\ \A i \in DOMAIN last.failed : last.failed[i].error = "INVALID_TRANSITION"
    /\ last.toast = "error"
    /\ last.requires = "Approved"

----------------------------------------------------------------------------
(* C26 *)

\* C26: block is valid from every status but Blocked and no action is valid
\* from Blocked; so a mutate with block on a record not shown as Blocked is
\* accepted and shows Blocked, every mutate on a record shown as Blocked is
\* rejected with 'Invalid transition', and a record the store holds as
\* Blocked stays Blocked.
C26_BlockedIsTerminal ==
    /\ [](\A status \in Statuses \ {"Blocked"} : getNextStatus(status, "block") = "Blocked")
    /\ [](\A action \in Actions : getNextStatus("Blocked", action) = Null)
    /\ []((MutateCalled /\ last.error # "Record not found")
            => /\ last.previousStatus = "Blocked"
                    => last.handler = "onError" /\ last.error = "Invalid transition"
               /\ (last.action = "block" /\ last.previousStatus # "Blocked")
                    => /\ last.handler = "onMutate"
                       /\ cache[last.recordId].status = "Blocked")
    /\ [][\A id \in DOMAIN recordsStore :
            recordsStore[id].status = "Blocked" => recordsStore'[id].status = "Blocked"]_vars
    /\ [][\A id \in DOMAIN cache :
            (/\ cache[id].status = "Blocked"
             /\ issued' = issued + 1
             /\ last'.recordIds = << >>
             /\ last'.recordId = id)
                => /\ cache' = cache
                   /\ last'.handler = "onError"
                   /\ last'.error = "Invalid transition"]_vars

\* a block of a Published record was accepted and committed, and a later
\* publish of the record, then shown and stored as Blocked, was rejected
C26_Witness ==
    /\ last.handler = "onError" /\ last.error = "Invalid transition"
    /\ last.previousStatus = "Blocked" /\ last.action = "publish"
    /\ recordsStore[last.recordId].status = "Blocked"
    /\ \E mid \in DOMAIN mutations :
          /\ mutations[mid].recordId = last.recordId
          /\ mutations[mid].action = "block" /\ mutations[mid].status = "success"
          /\ mutations[mid].previousRecord.status = "Published"

----------------------------------------------------------------------------
(* C27 *)

\* C27: no step (optimistic apply, commit or rollback) decreases the
\* updatedAt of a cached record.
C27_UpdatedAtNeverDecreases ==
    [][\A id \in DOMAIN cache : cache'[id].updatedAt >= cache[id].updatedAt]_vars

----------------------------------------------------------------------------
(* C28 *)

\* C28: the cache holds one record for each identity it was loaded with, no
\* step adds or drops an identity, and the status of every cached record is
\* one of the five statuses. (The cache is a function of the identity: the
\* code's records.map keeps one element per element.)
C28_CacheShape ==
    /\ [](DOMAIN cache = CachedIds)
    /\ [](\A id \in DOMAIN cache :
            /\ cache[id].status \in Statuses
            /\ DOMAIN cache[id] = {"status", "updatedAt", "blockReason"})
    /\ [][DOMAIN cache' = DOMAIN cache]_vars

\* a batch has been issued whose action is invalid for one of its cached
\* records, which keeps its status
C28_Witness ==
    /\ last.handler = "batch.onMutate"
    /\ \E id \in Range(last.recordIds) \cap DOMAIN cache :
          /\ getNextStatus(batches[last.mutationId].previousRecords[id].status,
                           last.action) = Null
          /\ cache[id] = batches[last.mutationId].previousRecords[id]

----------------------------------------------------------------------------
(* C29 *)

\* a single mutate of a cached record runs in this step
MutateStep ==
    /\ issued' = issued + 1
    /\ last'.recordIds = << >>
    /\ last'.recordId \in DOMAIN cache

----------------------------------------------------------------------------
(* C30 *)

\* a single mutate runs in this step for a record the cache does not hold or
\* with an action the transition table does not list for the status shown
RejectedMutateStep ==
    /\ issued' = issued + 1
    /\ last'.recordIds = << >>
    /\ \/ last'.recordId \notin DOMAIN cache
       \/ TableTarget(cache[last'.recordId].status, last'.action) = Null

\* C30: a mutate rejected in onMutate ('Record not found' or 'Invalid
\* transition') changes no cached record and no stored record, takes no
\* snapshot to roll back to, and settles at once as an error without a
\* backing call: no later step settles it again.
C30_RejectedMutateTouchesNothing ==
    /\ [][RejectedMutateStep
            => /\ cache' = cache
               /\ recordsStore' = recordsStore
               /\ last'.handler = "onError"
               /\ last'.error \in SyncErrors
               /\ mutations'[last'.mutationId].status = "error"
               /\ mutations'[last'.mutationId].previousRecord = NoRecord]_vars
    /\ [][\A mid \in DOMAIN mutations :
            mutations[mid].error \in SyncErrors
                => /\ mutations'[mid] = mutations[mid]
                   /\ ~(last'.handler \in {"onSuccess", "onError"}
                        /\ last'.mutationId = mid
                        /\ last' # last)]_vars

\* an approve rejected on a record shown as Approved by an unsettled
\* mutation: the optimistic status is still shown and the store still holds
\* the status before it
C30_Witness ==
    /\ last.handler = "onError" /\ last.error = "Invalid transition"
    /\ last.action = "approve" /\ last.previousStatus = "Approved"
    /\ cache[last.recordId].status = "Approved"
    /\ recordsStore[last.recordId].status = "InReview"
    /\ mutations[last.mutationId].status = "error"
    /\ PendingMutationsOn(last.recordId) # {}

----------------------------------------------------------------------------
(* C31 *)

\* the onError of a single mutation whose backing call failed runs in this step
RollbackStep ==
    /\ last'.handler = "onError"
    /\ last'.error \notin SyncErrors
    /\ last'.mutationId \in DOMAIN mutations
    /\ mutations[last'.mutationId].status = "pending"
    /\ mutations'[last'.mutationId].status = "error"

\* C31: the rollback of a failed mutation that wrote no reason itself puts
\* its anchor status on the record and leaves the record's blockReason as
\* it is: a reason written by another mutation stays.
C31_RollbackKeepsOtherFields ==
    [][(RollbackStep /\ mutations[last'.mutationId].blockReason = Undefined)
        => /\ cache'[last'.recordId].status
                = mutations[last'.mutationId].previousRecord.status
           /\ cache'[last'.recordId].blockReason = cache[last'.recordId].blockReason
      ]_vars

----------------------------------------------------------------------------
(* C32 *)

\* the operations in the tracker, of all records
AllOperations(ops) ==
    UNION {{ops[recordId][i] : i \in DOMAIN ops[recordId]} : recordId \in DOMAIN ops}

----------------------------------------------------------------------------
(* C33 *)

\* the step is an accepted mutate of the record, or a batch mutate selecting
\* it, and shows the target the table lists for the status shown before
ValidatedApply(id) ==
    /\ issued' = issued + 1
    /\ \/ last'.handler = "onMutate" /\ last'.recordId = id
       \/ last'.handler = "batch.onMutate" /\ id \in Range(last'.recordIds)
    /\ TableTarget(cache[id].status, last'.action) # Null
    /\ cache'[id].status = TableTarget(cache[id].status, last'.action)

\* the step is the rollback of a failed mutation of the record to the anchor
\* its operation recorded
RollbackToAnchor(id) ==
    /\ RollbackStep
    /\ last'.recordId = id
    /\ \E op \in AllOperations(operations) :
          /\ op.id = mutations[last'.mutationId].operationId
          /\ op.recordId = id
          /\ cache'[id].status = op.previousStatus

\* C33: a step that changes the status of a cached record is the optimistic
\* apply of a validated transition or the rollback of a failed mutation to
\* its recorded anchor.
C33_StatusChangesOnlyByEngine ==
    [][\A id \in DOMAIN cache :
            cache'[id].status # cache[id].status
                => ValidatedApply(id) \/ RollbackToAnchor(id)]_vars

\* a rollback has put back an anchor that was itself the optimistic status of
\* another mutation: the store holds a different status
C33_Witness ==
    /\ BackingCallFailed
    /\ last.nextStatus # Null
    /\ cache[last.recordId].status = last.previousStatus
    /\ last.previousStatus # recordsStore[last.recordId].status

----------------------------------------------------------------------------
(* C34 *)

\* a handler of a single mutation (onMutate, onSuccess or onError) runs in
\* this step
SingleMutationStep ==
    /\ last' # last
    /\ last'.handler \in {"onMutate", "onSuccess", "onError"}

\* C34: a step of a single mutation of a record leaves the cached record and
\* the pending operations of every other record as they are.
C34_OtherRecordsUntouched ==
    [][SingleMutationStep
        => \A other \in RecordIds \ {last'.recordId} :
              /\ other \in DOMAIN cache => cache'[other] = cache[other]
              /\ getOperationsOf(operations', other) = getOperationsOf(operations, other)
      ]_vars

\* a mutation of one record has been rolled back while the other record has
\* a pending operation and shows its optimistic status
C34_Witness ==
    /\ BackingCallFailed
    /\ \E other \in DOMAIN cache \ {last.recordId} :
          /\ hasPendingOps(other)
          /\ PendingMutationsOn(other) # {}
          /\ cache[other].status # recordsStore[other].status

----------------------------------------------------------------------------
(* C35 *)

\* C35: when a batch has been issued, a selected record from whose status
\* the action is not valid shows no optimistic change and has no pending
\* operation.
C35_InvalidBatchEntityUntracked ==
    (last.handler = "batch.onMutate" /\ OnlyOneBatch)
        => \A id \in DOMAIN batches[last.mutationId].previousRecords :
              TableTarget(batches[last.mutationId].previousRecords[id].status,
                          last.action) = Null
                => /\ cache[id] = batches[last.mutationId].previousRecords[id]
                   /\ ~hasPendingOps(id)

\* the half of C35 the code keeps: no optimistic change for such a record
C35_CachePart ==
    (last.handler = "batch.onMutate" /\ OnlyOneBatch)
        => \A id \in DOMAIN batches[last.mutationId].previousRecords :
              TableTarget(batches[last.mutationId].previousRecords[id].status,
                          last.action) = Null
                => cache[id] = batches[last.mutationId].previousRecords[id]

----------------------------------------------------------------------------
(* C36 *)

\* C36: when the updateRecord call of a record of a batch has ended while
\* calls of other records of the batch are outstanding, the record has no
\* pending operation any more.
C36_BatchOperationEndsWithOwnCall ==
    (last.handler = "batchUpdate" /\ OnlyOneBatch /\ last.recordId \in DOMAIN cache)
        => ~hasPendingOps(last.recordId)

----------------------------------------------------------------------------
(* C37 *)

\* a backing call of a single mutation returns in this step
BackingCallReturns == issued' = issued /\ clock' # clock /\ batches' = batches

\* C37: every accepted mutate is pending until its backing call returns;
\* the step in which a backing call returns settles exactly one pending
\* mutation, as success with onSuccess or as error with onError; a settled
\* mutation never changes again, so its call is made once and a failed call
\* is not repeated; and, the call returning after its delay, every accepted
\* mutate does settle.
C37_OneCallOneOutcome ==
    /\ [][BackingCallReturns
            => /\ last'.handler \in {"onSuccess", "onError"}
               /\ last'.mutationId \in DOMAIN mutations
               /\ mutations[last'.mutationId].status = "pending"
               /\ mutations'[last'.mutationId].status
                     = (IF last'.handler = "onSuccess" THEN "success" ELSE "error")
               /\ \A mid \in DOMAIN mutations \ {last'.mutationId} :
                     mutations'[mid] = mutations[mid]
          ]_vars
    /\ [][\A mid \in DOMAIN mutations :
            mutations[mid].status # "pending" => mutations'[mid] = mutations[mid]]_vars
    /\ [][recordsStore' # recordsStore => BackingCallReturns]_vars
    /\ \A mid \in 1..(MaxPairCalls + 1) :
          [](mid \in DOMAIN mutations
                => <>(/\ mid \in DOMAIN mutations
                      /\ mutations[mid].status \in {"success", "error"}))

\* two mutations of one record have settled, the first as an error and the
\* second as a success, each once
C37_Witness ==
    /\ last.handler = "onSuccess"
    /\ \E mid \in DOMAIN mutations :
          /\ mid < last.mutationId
          /\ mutations[mid].recordId = last.recordId
          /\ mutations[mid].status = "error"
          /\ mutations[mid].error \notin SyncErrors
    /\ mutations[last.mutationId].status = "success"
    /\ \A mid \in DOMAIN mutations : mutations[mid].status # "pending"

----------------------------------------------------------------------------
(* C38 *)

\* the positions of the tracker: a record id and an index in its list
OperationSlots == {<<k, i>> : k \in DOMAIN operations, i \in 1..MaxOps}

\* C38: after any sequence of addOperation, removeOperation and
\* clearOperations calls no record id maps to an empty list, every operation
\* is filed under its own recordId, no two operations have the same id, and
\* for every record hasPendingOps, getPendingCount > 0 and a non-null
\* getLatestAction hold together or not at all.
C38_TrackerStructure ==
    /\ \A k \in DOMAIN operations :
          /\ Len(operations[k]) > 0
          /\ \A i \in DOMAIN operations[k] : operations[k][i].recordId = k
    /\ \A s1 \in OperationSlots, s2 \in OperationSlots :
          (/\ s1 # s2
           /\ s1[2] \in DOMAIN operations[s1[1]]
           /\ s2[2] \in DOMAIN operations[s2[1]])
              => operations[s1[1]][s1[2]].id # operations[s2[1]][s2[2]].id
    /\ \A recordId \in RecordIds :
          /\ hasPendingOps(recordId) <=> getPendingCount(recordId) > 0
          /\ hasPendingOps(recordId) <=> getLatestAction(recordId) # Null

\* the only operation of a record has been removed, its key with it, while
\* the other record keeps two operations
C38_Witness ==
    /\ last.handler = "removeOperation"
    /\ nextOp = MaxOps
    /\ last.recordId \notin DOMAIN operations
    /\ last.operationId \notin AllOperationIds(operations)
    /\ \E other \in DOMAIN operations : getPendingCount(other) = 2

----------------------------------------------------------------------------
(* C39 *)

\* C39: the backing call of a single mutation that onMutate accepted never
\* fails with INVALID_TRANSITION, whatever other single mutations of the
\* record overlap it and in whatever order the calls reach the store.
C39_StoreAcceptsWhatWasAccepted ==
    (last.handler = "onError" /\ batches = << >>)
        => last.error # "INVALID_TRANSITION"

----------------------------------------------------------------------------
(* C40 *)

\* a backing call, of a single mutation or of a batch, returns in this step
StoreCallReturns ==
    /\ issued' = issued
    /\ clock' # clock
    /\ last'.handler \in {"onSuccess", "onError", "batchUpdate", "batch.onSuccess"}

\* C40: the store changes only in a step in which a backing call returns,
\* and then only the called record; a call that returns an error leaves the
\* store as it is, as does a call for an id the store does not hold; a call
\* that succeeds moves its record along the
\* transition the table lists for the action from the store's own status;
\* and a record the store holds as Blocked keeps that status.
C40_StoreIntegrity ==
    /\ [][recordsStore' # recordsStore => StoreCallReturns]_vars
    /\ [][StoreCallReturns
            => /\ DOMAIN recordsStore' = DOMAIN recordsStore
               /\ \A other \in DOMAIN recordsStore \ {last'.recordId} :
                     recordsStore'[other] = recordsStore[other]
               /\ last'.error # Null => recordsStore' = recordsStore
               /\ last'.error = Null
                     => /\ TableTarget(recordsStore[last'.recordId].status,
                                       last'.action) # Null
                        /\ recordsStore'[last'.recordId].status
                              = TableTarget(recordsStore[last'.recordId].status,
                                            last'.action)
          ]_vars
    /\ [][\A id \in DOMAIN recordsStore :
            recordsStore'[id].status # recordsStore[id].status
                => /\ recordsStore[id].status # "Blocked"
                   /\ \E action \in Actions :
                         recordsStore'[id].status
                            = TableTarget(recordsStore[id].status, action)]_vars
    /\ [](\A id \in DOMAIN recordsStore : recordsStore[id].status \in Statuses)
    /\ [](\A action \in Actions, fail \in BOOLEAN :
            LET res == updateRecord(recordsStore, "e0", action, Undefined, fail, clock + 1)
            IN  /\ "e0" \notin DOMAIN recordsStore
                /\ ~res.ok
                /\ res.code = (IF fail THEN "NETWORK_ERROR" ELSE "NOT_FOUND")
                /\ res.store = recordsStore)

\* a call has failed with INVALID_TRANSITION at a record the store holds as
\* Blocked after a committed block, the cache having accepted the action
C40_Witness ==
    /\ last.handler = "onError" /\ last.error = "INVALID_TRANSITION"
    /\ recordsStore[last.recordId].status = "Blocked"
    /\ \E mid \in DOMAIN mutations :
          /\ mutations[mid].recordId = last.recordId
          /\ mutations[mid].action = "block"
          /\ mutations[mid].status = "success"

====
